---- MODULE Spec2Model ----
(***************************************************************************)
(* Program-name matcher of the SNIES analysis pipeline.                    *)
(*                                                                         *)
(* The matcher is the routine of src/src/main.py (_buscar_programa_mejorado*)
(* lines 33-78) and its copy in src/app.py (buscar_programa_snies, lines   *)
(* 89-114); the empty-catalog case of main.py is delegated to              *)
(* LectorSNIES.buscar_programa (src/src/lector_tablas_snies.py 88-99).     *)
(*                                                                         *)
(* Text is modelled as Python models it: a str is a sequence of Unicode    *)
(* code points; split(), lower(), str() and the < of sorted() are computed *)
(* on code points.  A catalog entry is a Python object: a str, None (a     *)
(* missing value) or an int.                                               *)
(*                                                                         *)
(* Six specifications share the state:                                     *)
(*   Spec            one search, repeated on the same query and catalog;   *)
(*   SpecSesion      several searches of a Streamlit session on the lector *)
(*                   cached by cargar_snies (src/app.py 63-78, 322-338);   *)
(*   SpecConcurrente two searches interleaved on the same cached lector;   *)
(*   SpecAgentes     CoordinadorAgentes.__init__ and ejecutar with the     *)
(*                   three agents and the LLM client (src/src/agentes);    *)
(*   SpecLector      calls of cargar_datos, procesar_todos and             *)
(*                   generar_graficas on one LectorSNIES object;           *)
(*   SpecCli         main() of src/src/main.py from its PASO 1 on.         *)
(***************************************************************************)
EXTENDS Integers, Sequences, FiniteSets, TLC

\* ------------------------------------------------------------------------
\* Bounds of the model
\* ------------------------------------------------------------------------

\* longest catalog (programas_list) handed to the matcher
MaxCatalogo == 2

\* number of invocations made with the same (query, catalog)
MaxInvocaciones == 2

\* number of searches made in one session on the same loaded lector
MaxBusquedas == 3

\* ------------------------------------------------------------------------
\* Text literals (code points)
\* ------------------------------------------------------------------------

\* '  ': a name made of blanks only
sEspacios == <<32, 32>>

\* 'DOCTORADO CIENCIAS SOCIALES', the default of LectorSNIES.programas
sDOCTORADOCIENCIASSOCIALES == <<68, 79, 67, 84, 79, 82, 65, 68, 79, 32, 67, 73, 69, 78, 67, 73, 65, 83, 32, 83, 79, 67, 73, 65, 76, 69, 83>>

\* "Doctorado en Ciencias Sociales"
sDoctoradoEnCienciasSociales == <<68, 111, 99, 116, 111, 114, 97, 100, 111, 32, 101, 110, 32, 67, 105, 101, 110, 99, 105, 97, 115, 32, 83, 111, 99, 105, 97, 108, 101, 115>>
\* "Doctorado Ciencias Sociales"
sDoctoradoCienciasSociales == <<68, 111, 99, 116, 111, 114, 97, 100, 111, 32, 67, 105, 101, 110, 99, 105, 97, 115, 32, 83, 111, 99, 105, 97, 108, 101, 115>>
\* "Maestría en Ciencias Sociales"
sMaestriaEnCienciasSociales == <<77, 97, 101, 115, 116, 114, 237, 97, 32, 101, 110, 32, 67, 105, 101, 110, 99, 105, 97, 115, 32, 83, 111, 99, 105, 97, 108, 101, 115>>
\* "Doctorado en Física"
sDoctoradoEnFisica == <<68, 111, 99, 116, 111, 114, 97, 100, 111, 32, 101, 110, 32, 70, 237, 115, 105, 99, 97>>
\* "Ingeniería en Ciencia de Datos"
sIngenieriaEnCienciaDeDatos == <<73, 110, 103, 101, 110, 105, 101, 114, 237, 97, 32, 101, 110, 32, 67, 105, 101, 110, 99, 105, 97, 32, 100, 101, 32, 68, 97, 116, 111, 115>>
\* "ciencia de datos"
sCienciaDeDatosMin == <<99, 105, 101, 110, 99, 105, 97, 32, 100, 101, 32, 100, 97, 116, 111, 115>>
\* "Datos"
sDatos == <<68, 97, 116, 111, 115>>
\* "Ingeniería de Datos"
sIngenieriaDeDatos == <<73, 110, 103, 101, 110, 105, 101, 114, 237, 97, 32, 100, 101, 32, 68, 97, 116, 111, 115>>
\* ""
sVacia == <<>>
\* "de la"
sDeLa == <<100, 101, 32, 108, 97>>
\* "DATOS"
sDATOS == <<68, 65, 84, 79, 83>>
\* "Datos datos Ciencia"
sDatosDatosCiencia == <<68, 97, 116, 111, 115, 32, 100, 97, 116, 111, 115, 32, 67, 105, 101, 110, 99, 105, 97>>
\* " Física  "
sFisicaEspacios == <<32, 70, 237, 115, 105, 99, 97, 32, 32>>
\* "Ciencias Doctorado Sociales"
sCienciasDoctoradoSociales == <<67, 105, 101, 110, 99, 105, 97, 115, 32, 68, 111, 99, 116, 111, 114, 97, 100, 111, 32, 83, 111, 99, 105, 97, 108, 101, 115>>
\* "Ciencias Sociales Doctorado"
sCienciasSocialesDoctorado == <<67, 105, 101, 110, 99, 105, 97, 115, 32, 83, 111, 99, 105, 97, 108, 101, 115, 32, 68, 111, 99, 116, 111, 114, 97, 100, 111>>
\* "INGENIERÍA DE DATOS"
sINGENIERIADEDATOS == <<73, 78, 71, 69, 78, 73, 69, 82, 205, 65, 32, 68, 69, 32, 68, 65, 84, 79, 83>>
\* "INGENIERÍA EN CIENCIA DE DATOS"
sINGENIERIAENCIENCIADEDATOS == <<73, 78, 71, 69, 78, 73, 69, 82, 205, 65, 32, 69, 78, 32, 67, 73, 69, 78, 67, 73, 65, 32, 68, 69, 32, 68, 65, 84, 79, 83>>
\* "None"
sNone == <<78, 111, 110, 101>>

\* ------------------------------------------------------------------------
\* Python values
\* ------------------------------------------------------------------------

\* a str object holding the text t
Texto(t) == [tipo |-> "str", v |-> t]

\* the None object
PyNone == [tipo |-> "NoneType", v |-> <<>>]

\* an int object of value k (k >= 0), kept as <<k>>
PyInt(k) == [tipo |-> "int", v |-> <<k>>]

\* decimal digits of k >= 0 as code points
RECURSIVE Digitos(_)
Digitos(k) ==
    IF k < 10 THEN <<48 + k>>
    ELSE Append(Digitos(k \div 10), 48 + (k % 10))

\* str(prg): a str is itself, None is "None", an int is its decimal digits
Str(prg) ==
    CASE prg.tipo = "str" -> prg.v
      [] prg.tipo = "NoneType" -> sNone
      [] prg.tipo = "int" -> Digitos(prg.v[1])

\* c.isspace() for the code points of Latin-1
EsEspacio(c) == c \in {9, 10, 11, 12, 13, 28, 29, 30, 31, 32, 133, 160}

\* str.lower() of one code point (ASCII and Latin-1 capitals move by 32)
LowerCp(c) ==
    IF c \in 65..90 \/ (c \in 192..222 /\ c # 215) THEN c + 32 ELSE c

\* p.lower()
Lower(p) == [i \in 1..Len(p) |-> LowerCp(p[i])]

\* s.split(): the maximal runs of non-space code points, in order
RECURSIVE SplitDesde(_, _, _)
SplitDesde(s, i, actual) ==
    IF i > Len(s)
    THEN IF actual = <<>> THEN <<>> ELSE <<actual>>
    ELSE IF EsEspacio(s[i])
         THEN IF actual = <<>>
              THEN SplitDesde(s, i + 1, <<>>)
              ELSE <<actual>> \o SplitDesde(s, i + 1, <<>>)
         ELSE SplitDesde(s, i + 1, Append(actual, s[i]))

Split(s) == SplitDesde(s, 1, <<>>)

\* ------------------------------------------------------------------------
\* The matcher's helpers
\* ------------------------------------------------------------------------

\* palabras_comunes
palabras_comunes ==
    { <<100, 101>>,       \* de
      <<108, 97>>,        \* la
      <<101, 108>>,       \* el
      <<121>>,            \* y
      <<101, 110>>,       \* en
      <<97>>,             \* a
      <<111>>,            \* o
      <<108, 111, 115>>,  \* los
      <<108, 97, 115>>,   \* las
      <<117, 110>>,       \* un
      <<117, 110, 97>>,   \* una
      <<100, 101, 108>>,  \* del
      <<99, 111, 110>>    \* con
    }

\* PalabrasOrdenadas with the lower() forgotten
PalabrasOrdenadas_sinLower(s) ==
    SelectSeq(Split(s), LAMBDA p : p \notin palabras_comunes)

\* [p.lower() for p in s.split() if p.lower() not in palabras_comunes]
PalabrasOrdenadas(s) ==
    LET partes == Split(s)
    IN  SelectSeq([i \in 1..Len(partes) |-> Lower(partes[i])],
                  LAMBDA p : p \notin palabras_comunes)

\* set(p.lower() for p in s.split() if p.lower() not in palabras_comunes)
PalabrasSignificativas(s) ==
    LET ordenadas == PalabrasOrdenadas(s)
    IN  { ordenadas[i] : i \in 1..Len(ordenadas) }

\* Requerido with the slice turned round: palabras_ordenadas[2:]
Requerido_desde2(ordenadas) ==
    {ordenadas[i] : i \in 3..Len(ordenadas)}

\* Requerido with the second word only: palabras_ordenadas[1:2]
Requerido_soloSegunda(ordenadas) ==
    {ordenadas[i] : i \in (1..Len(ordenadas)) \cap {2}}

\* Requerido with the first word only: palabras_ordenadas[:1]
Requerido_soloPrimera(ordenadas) ==
    {ordenadas[i] : i \in (1..Len(ordenadas)) \cap {1}}

\* set(palabras_ordenadas[:2]) if len(palabras_ordenadas) >= 2
\* else set(palabras_ordenadas)
Requerido(ordenadas) ==
    IF Len(ordenadas) >= 2
    THEN {ordenadas[1], ordenadas[2]}
    ELSE {ordenadas[i] : i \in 1..Len(ordenadas)}

\* n = len(programa_palabras) if len(programa_palabras) > 0 else 1
TamanoN(palabras) ==
    IF Cardinality(palabras) > 0 THEN Cardinality(palabras) ELSE 1

\* Umbral with the tolerance 1/n in place of the threshold (n - 1)/n
Umbral_unoSobreN(n) == [num |-> 1, den |-> n]

\* Umbral with the tolerance forgotten: the threshold is always 1.0
Umbral_siempreUno(n) == [num |-> 1, den |-> 1]

\* umbral_jaccard = (n - 1) / n if n > 1 else 1.0, kept as a fraction
Umbral(n) ==
    IF n > 1 THEN [num |-> n - 1, den |-> n] ELSE [num |-> 1, den |-> 1]

\* Jaccard as the textbook index: the intersection over the union
Jaccard_union(palabras, prg_palabras) ==
    IF Cardinality(palabras) > 0
    THEN [num |-> Cardinality(palabras \cap prg_palabras),
          den |-> Cardinality(palabras \cup prg_palabras)]
    ELSE [num |-> 1, den |-> 1]

\* Jaccard with 0.0 instead of 1.0 for a query without significant words
Jaccard_ceroSiVacio(palabras, prg_palabras) ==
    IF Cardinality(palabras) > 0
    THEN [num |-> Cardinality(palabras \cap prg_palabras),
          den |-> Cardinality(palabras)]
    ELSE [num |-> 0, den |-> 1]

\* jaccard = interseccion / len(programa_palabras), or 1.0 for an empty query
Jaccard(palabras, prg_palabras) ==
    IF Cardinality(palabras) > 0
    THEN [num |-> Cardinality(palabras \cap prg_palabras),
          den |-> Cardinality(palabras)]
    ELSE [num |-> 1, den |-> 1]

\* FracGeq with > in place of >=
FracGeq_estricto(a, b) == a.num * b.den > b.num * a.den

\* a >= b on fractions with positive denominators.  The two floats compared
\* in the code are quotients by the same integer (or both 1.0), so the
\* float comparison and the exact one agree.
FracGeq(a, b) == a.num * b.den >= b.num * a.den

\* Califica with the required words forgotten: the threshold alone decides
Califica_sinRequeridas(palabras, req, umbral, prg) ==
    FracGeq(Jaccard(palabras, PalabrasSignificativas(Str(prg))), umbral)

\* Califica with the lower() of the catalog side forgotten
Califica_sinLower(palabras, req, umbral, prg) ==
    LET partes == Split(Str(prg))
        prg_palabras == { partes[i] : i \in 1..Len(partes) } \ palabras_comunes
    IN  /\ FracGeq(Jaccard(palabras, prg_palabras), umbral)
        /\ req \subseteq prg_palabras

\* jaccard >= umbral_jaccard and tiene_requeridas
Califica(palabras, req, umbral, prg) ==
    LET prg_palabras == PalabrasSignificativas(Str(prg))
    IN  /\ FracGeq(Jaccard(palabras, prg_palabras), umbral)
        /\ req \subseteq prg_palabras

\* Filtrar appending the coerced text str(prg) instead of prg
Filtrar_str(lista, palabras, req, umbral, prg) ==
    IF Califica(palabras, req, umbral, prg)
    THEN Append(lista, Texto(Str(prg))) ELSE lista

\* the body of the loop for one catalog entry: prg itself is appended when
\* it qualifies
Filtrar(lista, palabras, req, umbral, prg) ==
    IF Califica(palabras, req, umbral, prg) THEN Append(lista, prg) ELSE lista

\* ------------------------------------------------------------------------
\* sorted(list(set(coincidencias)))
\* ------------------------------------------------------------------------

\* the distinct objects of a list
ConjuntoDe(lista) == { lista[i] : i \in 1..Len(lista) }

\* list(conjunto): a set is iterated in hash order, which the program does
\* not control (str hashes are salted per process): any enumeration
RECURSIVE ListasDe(_)
ListasDe(conjunto) ==
    IF conjunto = {} THEN { <<>> }
    ELSE UNION { { <<x>> \o resto : resto \in ListasDe(conjunto \ {x}) }
                 : x \in conjunto }

\* ListaDeSet with the set() forgotten: the list as it is
ListaDeSet_sinSet(lista) == { lista }

\* list(set(lista)): the lists the set of a list can be turned into
ListaDeSet(lista) == ListasDe(ConjuntoDe(lista))

\* a < b on two str: lexicographic order of the code points
RECURSIVE MenorTexto(_, _)
MenorTexto(a, b) ==
    IF b = <<>> THEN FALSE
    ELSE IF a = <<>> THEN TRUE
    ELSE IF a[1] # b[1] THEN a[1] < b[1]
    ELSE MenorTexto(Tail(a), Tail(b))

\* Menor comparing the lower-cased texts, as sorted(..., key=str.lower) does
Menor_lower(a, b) ==
    IF a.tipo = "str" THEN MenorTexto(Lower(a.v), Lower(b.v))
    ELSE a.v[1] < b.v[1]

\* a < b on two objects of the same type (str by code points, int by value)
Menor(a, b) ==
    IF a.tipo = "str" THEN MenorTexto(a.v, b.v) ELSE a.v[1] < b.v[1]

\* sorted() compares objects with <, which raises TypeError between a str
\* and a non-str, between None and anything, and between None and None
LanzaTypeError(lista) ==
    /\ Len(lista) >= 2
    /\ \E i, j \in 1..Len(lista) :
          /\ i # j
          /\ \/ lista[i].tipo # lista[j].tipo
             \/ lista[i].tipo = "NoneType"

\* insertion of x into an ascending list, after the elements not above it
RECURSIVE Insertar(_, _)
Insertar(x, ordenada) ==
    IF ordenada = <<>> THEN <<x>>
    ELSE IF Menor(x, Head(ordenada)) THEN <<x>> \o ordenada
    ELSE <<Head(ordenada)>> \o Insertar(x, Tail(ordenada))

\* Sorted with the sort forgotten: the list in the order of the set
Sorted_sinOrdenar(lista) == lista

\* sorted(lista) for a list of comparable objects
RECURSIVE Sorted(_)
Sorted(lista) ==
    IF lista = <<>> THEN <<>>
    ELSE Insertar(lista[Len(lista)], Sorted(SubSeq(lista, 1, Len(lista) - 1)))

\* ------------------------------------------------------------------------
\* LectorSNIES.buscar_programa (the search main.py delegates to)
\* ------------------------------------------------------------------------

\* Series.unique(): first occurrences, in order
RECURSIVE Unique(_)
Unique(columna) ==
    IF columna = <<>> THEN <<>>
    ELSE LET previos == Unique(SubSeq(columna, 1, Len(columna) - 1))
             ultimo == columna[Len(columna)]
         IN  IF ultimo \in ConjuntoDe(previos) THEN previos
             ELSE Append(previos, ultimo)

\* set(s.lower().split())
PalabrasCrudas(s) ==
    LET partes == Split(Lower(s))
    IN  { partes[i] : i \in 1..Len(partes) }

\* similitud >= 0.8 with similitud = len(interseccion) / len(programa_palabras)
SimilitudBasta(palabras, palabras_prg) ==
    FracGeq([num |-> Cardinality(palabras \cap palabras_prg),
             den |-> Cardinality(palabras)],
            [num |-> 4, den |-> 5])

\* BuscarPrograma computing 1 / len(programa_palabras) ahead of the loop
BuscarPrograma_divideAntes(programa, columna) ==
    LET palabras == PalabrasCrudas(programa)
        nombres == Unique(columna)
    IN  IF palabras = {}
        THEN [equivalentes |-> <<>>, excepcion |-> "ZeroDivisionError"]
        ELSE [equivalentes |->
                 SelectSeq(nombres,
                     LAMBDA prg : SimilitudBasta(palabras,
                                                 PalabrasCrudas(Str(prg)))),
              excepcion |-> "ninguna"]

\* the loop of buscar_programa over the distinct catalog names: the list
\* 'equivalentes', or ZeroDivisionError at the first name when the query has
\* no word
BuscarPrograma(programa, columna) ==
    LET palabras == PalabrasCrudas(programa)
        nombres == Unique(columna)
    IN  IF nombres # <<>> /\ palabras = {}
        THEN [equivalentes |-> <<>>, excepcion |-> "ZeroDivisionError"]
        ELSE [equivalentes |->
                 SelectSeq(nombres,
                     LAMBDA prg : SimilitudBasta(palabras,
                                                 PalabrasCrudas(Str(prg)))),
              excepcion |-> "ninguna"]

\* ------------------------------------------------------------------------
\* Inputs
\* ------------------------------------------------------------------------

\* the queries tried
Consultas ==
    { sDoctoradoCienciasSociales, sIngenieriaDeDatos, sVacia, sDeLa, sDATOS,
      sDatosDatosCiencia, sDoctoradoEnFisica, sFisicaEspacios }

\* the objects a catalog is made of
Entradas ==
    { Texto(sDoctoradoEnCienciasSociales), Texto(sDoctoradoCienciasSociales),
      Texto(sMaestriaEnCienciasSociales), Texto(sDoctoradoEnFisica),
      Texto(sIngenieriaEnCienciaDeDatos), Texto(sCienciaDeDatosMin),
      Texto(sDatos), PyNone, PyInt(2024) }

\* every catalog of at most MaxCatalogo entries, repetitions allowed
Catalogos ==
    UNION { [1..k -> Entradas] : k \in 0..MaxCatalogo }

\* ------------------------------------------------------------------------
\* State
\* ------------------------------------------------------------------------

VARIABLES
    copia,              \* which copy of the routine runs: "main" or "app"
    programa_buscar,    \* the query
    programas_list,     \* the catalog iterated by the matching loop
    catalogo_cargado,   \* the catalog the lector was loaded with
    pc,                 \* position of the running invocation
    programa_palabras,  \* set of significant words of the query
    palabras_ordenadas, \* the same words as a list, in query order
    requerido,          \* the words every match must contain
    n,                  \* size used for the threshold
    umbral_jaccard,     \* the threshold, as a fraction
    idx,                \* position of the loop in programas_list
    coincidencias,      \* matches appended so far
    resultado,          \* the list of equivalents of a finished invocation
    excepcion,          \* exception that left the routine, or "ninguna"
    retorno,            \* shape of the value returned to the caller
    previos,            \* outcomes of the earlier invocations on this input
    otra,               \* frame of a second invocation running concurrently
    api_key,            \* AZURE_OPENAI_API_KEY is set in the environment
    datos_enriquecidos, \* datos['datos_enriquecidos'] handed to the agents
    pcc,                \* position of the coordinator
    llm,                \* self.llm of the three agents and of the coordinator
    respuestas,         \* outcome of the request made at each LLM call site
    denominacion,       \* result of AgenteDenominacion.analizar()
    tendencias,         \* result of AgenteTendencias.analizar()
    instituciones_geo,  \* result of AgenteInstitucionesGeografia.analizar()
    sintesis,           \* result of _sintetizar
    excepcion_coord,    \* exception that left __init__ or ejecutar
    session_state,      \* st.session_state of the Streamlit page
    excepcion_app,      \* exception that ended the last run of the page script
    lector,             \* a LectorSNIES object and the history of its calls
    cli                 \* position and outputs of main() of the CLI pipeline

vars == <<copia, programa_buscar, programas_list, catalogo_cargado, pc, programa_palabras,
          palabras_ordenadas, requerido, n, umbral_jaccard, idx,
          coincidencias, resultado, excepcion, retorno, previos, otra,
          api_key, datos_enriquecidos, pcc, llm, respuestas, denominacion,
          tendencias, instituciones_geo, sintesis, excepcion_coord,
          session_state, excepcion_app, lector, cli>>

entrada == <<copia, programa_buscar, programas_list, catalogo_cargado>>

locales == <<programa_palabras, palabras_ordenadas, requerido, n,
             umbral_jaccard, idx, coincidencias>>

salida == <<resultado, excepcion, retorno>>

\* the state of the components an invocation of the matcher does not touch
\* the state of the multi-agent coordinator
coordinacion == <<api_key, datos_enriquecidos, pcc, llm, respuestas,
                  denominacion, tendencias, instituciones_geo, sintesis,
                  excepcion_coord>>

\* the Streamlit page, the lector object and the CLI pipeline
entorno == <<session_state, excepcion_app, lector, cli>>

ajenas == <<otra, coordinacion, entorno>>

\* the four SNIES tables, in the order of LectorSNIES.URLS
Tablas == <<"maestro", "oferta", "programas", "ies">>

\* LectorSNIES.__init__: self.programas (with its default), self.datos = {},
\* self.resultados = {}.  'datos' is the set of tables held and 'resultados'
\* the set of (name, equivalents) items; the other fields keep the history
\* of the calls: completed downloads of each table, downloads made by calls
\* that found data held, calls made, the last call and its exception, the
\* programs whose graphs were drawn, and whether the last generar_graficas
\* took its early return
LectorNuevo(programas) ==
    [ programas |-> IF programas # <<>> THEN programas
                    ELSE <<sDOCTORADOCIENCIASSOCIALES>>,
      datos |-> {}, resultados |-> {},
      descargas |-> [t \in {"maestro", "oferta", "programas", "ies"} |-> 0],
      descargas_con_cache |-> 0, llamadas |-> 0, ultima |-> "ninguna",
      excepcion |-> "ninguna", hubo_fallo |-> FALSE,
      graficas |-> {}, retorno_temprano |-> FALSE ]

\* app.py lines 63-68: the session state of a new session
SesionNueva ==
    [ datos_cargados |-> FALSE, programa_actual |-> PyNone,
      resultados_agentes |-> PyNone, datos_json |-> PyNone ]

\* main() before it is run
CliInactivo ==
    [ pc |-> "inactivo", sin_agentes |-> FALSE, excepcion |-> "ninguna",
      presentacion |-> FALSE, retorno |-> -1 ]

\* no Streamlit session, no lector call and no CLI run is under way
EntornoInactivo ==
    /\ session_state = SesionNueva
    /\ excepcion_app = "ninguna"
    /\ lector = LectorNuevo(<<>>)
    /\ cli = CliInactivo

\* a key that a dict does not hold
Ausente == [claves |-> {}, texto |-> "ausente"]

\* the coordinator before CoordinadorAgentes(datos) is called
CoordinacionInactiva ==
    /\ api_key = FALSE
    /\ datos_enriquecidos = "vacio"
    /\ pcc = "inactivo"
    /\ llm = [denominacion |-> "None", tendencias |-> "None",
              instituciones |-> "None", coordinador |-> "None"]
    /\ respuestas = [denominacion |-> "sin_llamar", tendencias |-> "sin_llamar",
                     instituciones |-> "sin_llamar", resumen |-> "sin_llamar"]
    /\ denominacion = [claves |-> {}, analisis_ia |-> Ausente]
    /\ tendencias = [claves |-> {}, analisis_ia |-> Ausente]
    /\ instituciones_geo = [claves |-> {}, analisis_ia |-> Ausente,
                            con_porcentaje |-> FALSE]
    /\ sintesis = [claves |-> {}, resumen_ejecutivo |-> "ausente"]
    /\ excepcion_coord = "ninguna"

\* the frame of an invocation that has not been made
MarcoInactivo ==
    [ pc |-> "inactiva", programa_buscar |-> <<>>, programas_list |-> <<>>,
      programa_palabras |-> {}, requerido |-> {},
      umbral_jaccard |-> [num |-> 1, den |-> 1], idx |-> 1,
      coincidencias |-> <<>>, resultado |-> <<>>, excepcion |-> "ninguna",
      solapada |-> FALSE ]

\* the locals before the routine binds them
LocalesIniciales ==
    /\ programa_palabras = {}
    /\ palabras_ordenadas = <<>>
    /\ requerido = {}
    /\ n = 1
    /\ umbral_jaccard = [num |-> 1, den |-> 1]
    /\ idx = 1
    /\ coincidencias = <<>>

Init ==
    /\ copia \in {"main", "app"}
    /\ programa_buscar \in Consultas
    /\ programas_list \in Catalogos
    /\ catalogo_cargado = programas_list
    \* app.py runs a search only for a non-empty text input (line 323)
    /\ copia = "app" => programa_buscar # <<>>
    /\ pc = "paso0"
    /\ LocalesIniciales
    /\ resultado = <<>>
    /\ excepcion = "ninguna"
    /\ retorno = "pendiente"
    /\ previos = <<>>
    /\ otra = MarcoInactivo
    /\ CoordinacionInactiva
    /\ EntornoInactivo

\* ------------------------------------------------------------------------
\* Actions
\* ------------------------------------------------------------------------

\* PASO 0 of main.py: an empty catalog sends the query to
\* lector.buscar_programa; app.py has no such test
Paso0 ==
    /\ pc = "paso0"
    /\ pc' = IF copia = "main" /\ Len(programas_list) = 0
             THEN "buscar_programa" ELSE "paso1"
    /\ UNCHANGED <<entrada, locales, salida, previos>>
    /\ UNCHANGED ajenas

\* return lector.buscar_programa(programa_buscar)
Delegar ==
    /\ pc = "buscar_programa"
    /\ LET r == BuscarPrograma(programa_buscar, programas_list)
       IN  /\ excepcion' = r.excepcion
           /\ resultado' = r.equivalentes
           /\ retorno' = IF r.excepcion = "ninguna"
                        THEN "dict_buscar_programa" ELSE "pendiente"
    /\ pc' = "fin"
    /\ UNCHANGED <<entrada, locales, previos>>
    /\ UNCHANGED ajenas

\* PASO 1: the words of the query, the required words and the threshold
Paso1 ==
    /\ pc = "paso1"
    /\ programa_palabras' = PalabrasSignificativas(programa_buscar)
    /\ palabras_ordenadas' = PalabrasOrdenadas(programa_buscar)
    /\ requerido' = Requerido(PalabrasOrdenadas(programa_buscar))
    /\ n' = TamanoN(PalabrasSignificativas(programa_buscar))
    /\ umbral_jaccard' = Umbral(TamanoN(PalabrasSignificativas(programa_buscar)))
    /\ idx' = 1
    /\ coincidencias' = <<>>
    /\ pc' = IF Len(programas_list) = 0 THEN "ordenar" ELSE "paso2"
    /\ UNCHANGED <<entrada, salida, previos>>
    /\ UNCHANGED ajenas

\* PASO 2: one iteration of the loop over programas_list
Paso2 ==
    /\ pc = "paso2"
    /\ idx <= Len(programas_list)
    /\ coincidencias' = Filtrar(coincidencias, programa_palabras, requerido,
                                umbral_jaccard, programas_list[idx])
    /\ idx' = idx + 1
    /\ pc' = IF idx = Len(programas_list) THEN "ordenar" ELSE "paso2"
    /\ UNCHANGED <<entrada, programa_palabras, palabras_ordenadas, requerido,
                   n, umbral_jaccard, salida, previos>>
    /\ UNCHANGED ajenas

\* the value handed back once the equivalents are known: main.py returns its
\* dict 'datos'; app.py returns None for no equivalent and a 2-tuple otherwise
Retorno(c, equivalentes) ==
    IF c = "main" THEN "dict_datos"
    ELSE IF equivalentes = <<>> THEN "None" ELSE "tupla"

\* CatalogoTras with the names consumed: the lector is left without names
CatalogoTras_vaciado(catalogo, equivalentes) == <<>>

\* CatalogoTras with the filtered table stored back into the lector
CatalogoTras_filtrado(catalogo, equivalentes) ==
    SelectSeq(catalogo, LAMBDA c : c \in ConjuntoDe(equivalentes))

\* the catalog held by the lector once a search has run on it: the routine
\* reads lector.datos and filters into new frames (programas_filtrados and
\* the .copy() frames of LectorDatosEnriquecidos); it stores nothing back
CatalogoTras(catalogo, equivalentes) == catalogo

\* coincidencias = sorted(list(set(coincidencias))), then the rest of the
\* routine up to its return
Ordenar ==
    /\ pc = "ordenar"
    /\ \E lista \in ListaDeSet(coincidencias) :
          IF LanzaTypeError(lista)
          THEN /\ excepcion' = "TypeError"
               /\ UNCHANGED <<coincidencias, resultado, retorno,
                              programas_list>>
          ELSE /\ coincidencias' = Sorted(lista)
               /\ resultado' = Sorted(lista)
               /\ retorno' = Retorno(copia, Sorted(lista))
               /\ programas_list' = CatalogoTras(programas_list, Sorted(lista))
               /\ UNCHANGED excepcion
    /\ pc' = "fin"
    /\ UNCHANGED <<copia, programa_buscar, catalogo_cargado, programa_palabras,
                   palabras_ordenadas, requerido, n, umbral_jaccard, idx,
                   previos>>
    /\ UNCHANGED ajenas

\* the caller runs the routine again on the same query and catalog
Reinvocar ==
    /\ pc = "fin"
    /\ Len(previos) + 1 < MaxInvocaciones
    /\ previos' = Append(previos, [resultado |-> resultado,
                                   excepcion |-> excepcion,
                                   retorno |-> retorno])
    /\ pc' = "paso0"
    /\ programa_palabras' = {}
    /\ palabras_ordenadas' = <<>>
    /\ requerido' = {}
    /\ n' = 1
    /\ umbral_jaccard' = [num |-> 1, den |-> 1]
    /\ idx' = 1
    /\ coincidencias' = <<>>
    /\ resultado' = <<>>
    /\ excepcion' = "ninguna"
    /\ retorno' = "pendiente"
    /\ UNCHANGED entrada
    /\ UNCHANGED ajenas

Next ==
    \/ Paso0
    \/ Delegar
    \/ Paso1
    \/ Paso2
    \/ Ordenar
    \/ Reinvocar

Spec == Init /\ [][Next]_vars

\* ------------------------------------------------------------------------
\* A session: several searches on the same loaded lector
\* ------------------------------------------------------------------------

\* the queries typed in a session
ConsultasSesion ==
    { sDATOS, sIngenieriaDeDatos, sINGENIERIADEDATOS,
      sDoctoradoCienciasSociales, sCienciasDoctoradoSociales,
      sCienciasSocialesDoctorado }

\* the four doctoral and master programs of the social-sciences example
TablaSociales ==
    << Texto(sDoctoradoEnCienciasSociales), Texto(sDoctoradoCienciasSociales),
       Texto(sMaestriaEnCienciasSociales), Texto(sDoctoradoEnFisica) >>

\* names that differ by letter case, by word order and by added words
TablaVariantes ==
    << Texto(sIngenieriaEnCienciaDeDatos), Texto(sDatos),
       Texto(sINGENIERIAENCIENCIADEDATOS),
       Texto(sDoctoradoCienciasSociales), Texto(sCienciasSocialesDoctorado),
       Texto(sDoctoradoEnCienciasSociales),
       Texto(sMaestriaEnCienciasSociales), Texto(sCienciaDeDatosMin) >>

\* a repeated name and a missing value
TablaRepetida == << Texto(sDatos), PyNone, Texto(sDatos) >>

\* the catalogs a lector is loaded with
TablasSesion == { TablaSociales, TablaVariantes, TablaRepetida, <<>> }

InitSesion ==
    /\ copia \in {"main", "app"}
    /\ programa_buscar \in ConsultasSesion
    /\ programas_list \in TablasSesion
    /\ catalogo_cargado = programas_list
    /\ pc = "paso0"
    /\ LocalesIniciales
    /\ resultado = <<>>
    /\ excepcion = "ninguna"
    /\ retorno = "pendiente"
    /\ previos = <<>>
    /\ otra = MarcoInactivo
    /\ CoordinacionInactiva
    \* app.py line 324: the page has stored the query it is searching
    /\ session_state = IF copia = "app"
                       THEN [SesionNueva EXCEPT
                                !.programa_actual = Texto(programa_buscar)]
                       ELSE SesionNueva
    /\ excepcion_app = "ninguna"
    /\ lector = LectorNuevo(<<>>)
    /\ cli = CliInactivo

\* the user of the Streamlit page types another query and presses the
\* button: the cached lector is searched again
Reconsultar ==
    /\ pc = "reposo"
    /\ copia = "app"
    /\ Len(previos) + 1 < MaxBusquedas
    /\ previos' = Append(previos, [consulta |-> programa_buscar,
                                   catalogo |-> programas_list,
                                   palabras_ordenadas |-> palabras_ordenadas,
                                   n |-> n,
                                   umbral_jaccard |-> umbral_jaccard,
                                   resultado |-> resultado,
                                   excepcion |-> excepcion,
                                   retorno |-> retorno])
    /\ programa_buscar' \in ConsultasSesion
    /\ pc' = "paso0"
    /\ programa_palabras' = {}
    /\ palabras_ordenadas' = <<>>
    /\ requerido' = {}
    /\ n' = 1
    /\ umbral_jaccard' = [num |-> 1, den |-> 1]
    /\ idx' = 1
    /\ coincidencias' = <<>>
    /\ resultado' = <<>>
    /\ excepcion' = "ninguna"
    /\ retorno' = "pendiente"
    /\ session_state' = [session_state EXCEPT
                             !.programa_actual = Texto(programa_buscar')]
    /\ excepcion_app' = "ninguna"
    /\ UNCHANGED <<copia, programas_list, catalogo_cargado>>
    /\ UNCHANGED <<otra, coordinacion, lector, cli>>

\* the results stored for a query: the dicts 'datos' and 'resultados' built
\* by the search for it
DictDe(consulta) == [tipo |-> "dict", v |-> consulta]

\* app.py lines 330-338: datos, resultados = buscar_programa_snies(...) and
\* the branch on them, which ends the run of the page script.  An
\* exception of the routine, or of the unpacking of its plain None, leaves
\* the script before any assignment; the returned tuple is
\* (datos, resultados), or (None, None) when the agents have raised.
Desempacar ==
    /\ pc = "fin"
    /\ copia = "app"
    /\ pc' = "reposo"
    /\ IF excepcion # "ninguna"
       THEN /\ excepcion_app' = excepcion
            /\ UNCHANGED session_state
       ELSE IF retorno = "None"
       THEN /\ excepcion_app' = "TypeError"
            /\ UNCHANGED session_state
       ELSE \E agentes \in {"retorna", "lanza"} :
               /\ excepcion_app' = "ninguna"
               /\ session_state' =
                     IF agentes = "retorna"
                     THEN [session_state EXCEPT
                              !.datos_cargados = TRUE,
                              !.resultados_agentes = DictDe(programa_buscar),
                              !.datos_json = DictDe(programa_buscar)]
                     ELSE [session_state EXCEPT !.datos_cargados = FALSE]
    /\ UNCHANGED <<entrada, locales, salida, previos, otra, coordinacion,
                   lector, cli>>

NextSesion ==
    \/ Paso0
    \/ Delegar
    \/ Paso1
    \/ Paso2
    \/ Ordenar
    \/ Desempacar
    \/ Reconsultar

SpecSesion == InitSesion /\ [][NextSesion]_vars

\* ------------------------------------------------------------------------
\* Two invocations running concurrently on the same cached lector
\* ------------------------------------------------------------------------

InitConcurrente ==
    /\ copia = "app"
    /\ programa_buscar \in ConsultasSesion
    /\ programas_list \in TablasSesion
    /\ catalogo_cargado = programas_list
    /\ pc = "paso0"
    /\ LocalesIniciales
    /\ resultado = <<>>
    /\ excepcion = "ninguna"
    /\ retorno = "pendiente"
    /\ previos = <<>>
    /\ \E q \in ConsultasSesion :
          otra = [MarcoInactivo EXCEPT !.pc = "paso0", !.programa_buscar = q]
    /\ CoordinacionInactiva
    /\ EntornoInactivo

\* the first invocation is between its first and its last step
EnCurso == pc \notin {"paso0", "fin"}

\* the second invocation reads the name list from the lector (app.py:89)
OtraPaso0 ==
    /\ otra.pc = "paso0"
    /\ otra' = [otra EXCEPT !.programas_list = programas_list,
                            !.pc = "paso1",
                            !.solapada = @ \/ EnCurso]
    /\ UNCHANGED <<entrada, pc, locales, salida, previos, coordinacion,
                   entorno>>

\* PASO 1 of the second invocation
OtraPaso1 ==
    /\ otra.pc = "paso1"
    /\ otra' = [otra EXCEPT
          !.programa_palabras = PalabrasSignificativas(otra.programa_buscar),
          !.requerido = Requerido(PalabrasOrdenadas(otra.programa_buscar)),
          !.umbral_jaccard =
              Umbral(TamanoN(PalabrasSignificativas(otra.programa_buscar))),
          !.idx = 1,
          !.coincidencias = <<>>,
          !.pc = IF Len(otra.programas_list) = 0 THEN "ordenar" ELSE "paso2",
          !.solapada = @ \/ EnCurso]
    /\ UNCHANGED <<entrada, pc, locales, salida, previos, coordinacion,
                   entorno>>

\* PASO 2 of the second invocation: one iteration of its loop
OtraPaso2 ==
    /\ otra.pc = "paso2"
    /\ otra.idx <= Len(otra.programas_list)
    /\ otra' = [otra EXCEPT
          !.coincidencias = Filtrar(otra.coincidencias, otra.programa_palabras,
                                    otra.requerido, otra.umbral_jaccard,
                                    otra.programas_list[otra.idx]),
          !.idx = otra.idx + 1,
          !.pc = IF otra.idx = Len(otra.programas_list)
                 THEN "ordenar" ELSE "paso2",
          !.solapada = @ \/ EnCurso]
    /\ UNCHANGED <<entrada, pc, locales, salida, previos, coordinacion,
                   entorno>>

\* the sort of the second invocation, then the rest of the routine
OtraOrdenar ==
    /\ otra.pc = "ordenar"
    /\ \E lista \in ListaDeSet(otra.coincidencias) :
          IF LanzaTypeError(lista)
          THEN /\ otra' = [otra EXCEPT !.excepcion = "TypeError",
                                       !.pc = "fin",
                                       !.solapada = @ \/ EnCurso]
               /\ UNCHANGED programas_list
          ELSE /\ otra' = [otra EXCEPT !.coincidencias = Sorted(lista),
                                       !.resultado = Sorted(lista),
                                       !.pc = "fin",
                                       !.solapada = @ \/ EnCurso]
               /\ programas_list' = CatalogoTras(programas_list, Sorted(lista))
    /\ UNCHANGED <<copia, programa_buscar, catalogo_cargado, pc, locales,
                   salida, previos, coordinacion, entorno>>

NextConcurrente ==
    \/ Paso0
    \/ Paso1
    \/ Paso2
    \/ Ordenar
    \/ OtraPaso0
    \/ OtraPaso1
    \/ OtraPaso2
    \/ OtraOrdenar

SpecConcurrente == InitConcurrente /\ [][NextConcurrente]_vars

\* ------------------------------------------------------------------------
\* The multi-agent coordinator and its LLM client
\* ------------------------------------------------------------------------

\* A call returns [valor, excepcion]: the value returned, or the exception
\* raised.  A dict is kept as the set of its keys and the text that tells
\* the dicts with the same keys apart.

\* what a request to the model can do: answer with a JSON object, answer
\* with text that is not JSON, or raise
Respuestas == {"json", "texto", "lanza"}

\* a statement that raises, written without try
Atrapar_nada(r, alternativa) == r

\* try: r  except Exception: alternativa
Atrapar(r, alternativa) ==
    IF r.excepcion # "ninguna"
    THEN [valor |-> alternativa, excepcion |-> "ninguna"]
    ELSE r

\* LLMHandler.__init__: raises ValueError without an API key
LLMHandlerInit(key) ==
    IF key THEN [valor |-> "LLMHandler", excepcion |-> "ninguna"]
    ELSE [valor |-> "None", excepcion |-> "ValueError"]

\* try: self.llm = LLMHandler()  except Exception: self.llm = None
ConstruirLLM(key) == Atrapar(LLMHandlerInit(key), "None")

\* LLMHandler.call: the text of the answer; the exception of the request is
\* raised again
Call(resp) ==
    IF resp = "lanza"
    THEN [valor |-> "", excepcion |-> "APIError"]
    ELSE [valor |-> resp, excepcion |-> "ninguna"]

\* the dict a handler method returns for the text of an answer: the parsed
\* JSON object, or the fixed structure of its JSONDecodeError branch
Parsear(r, respuesta_ia, limitado) ==
    IF r.excepcion # "ninguna" THEN [valor |-> Ausente, excepcion |-> r.excepcion]
    ELSE IF r.valor = "json" THEN [valor |-> respuesta_ia, excepcion |-> "ninguna"]
    ELSE [valor |-> limitado, excepcion |-> "ninguna"]

\* keys of the JSON object asked of the model for a denomination
ClavesRespuestaDen ==
    { "denominacion_oficial", "variaciones_encontradas", "patrones",
      "palabras_clave", "clasificacion", "internacionales",
      "posicionamiento_mercado", "recomendaciones_competitivas",
      "oportunidades_diferenciacion", "valor_para_estudiante", "hallazgos" }

\* the JSON object answered by the model
RespuestaDen == [claves |-> ClavesRespuestaDen, texto |-> "respuesta de la IA"]

\* the structure returned on JSONDecodeError
LimitadoDen ==
    [claves |-> ClavesRespuestaDen, texto |-> "Análisis con limitaciones de IA"]

\* {"denominacion_oficial": programa_objetivo, "error": str(e)}
ErrorDen == [claves |-> {"denominacion_oficial", "error"}, texto |-> "ausente"]

\* AgenteDenominacion._analisis_basico()
BasicoDen ==
    [claves |-> { "denominacion_oficial", "variaciones_encontradas",
                  "patrones_nombres", "palabras_clave", "clasificacion",
                  "equivalentes_internacionales", "hallazgos",
                  "contexto_del_mercado" },
     texto |-> "Análisis básico sin contexto de IA"]

\* LLMHandler.analizar_denominacion_con_contexto
AnalizarDenominacionConContexto(resp) ==
    Atrapar(Parsear(Call(resp), RespuestaDen, LimitadoDen), ErrorDen)

\* AgenteDenominacion.analizar(): without a client the basic analysis is the
\* whole result; otherwise 'analisis_ia' is what the handler returned, or
\* the basic analysis when the handler raised
AnalizarDenominacion(cliente, resp) ==
    IF cliente = "None"
    THEN [valor |-> [claves |-> BasicoDen.claves, analisis_ia |-> Ausente],
          excepcion |-> "ninguna"]
    ELSE LET r == Atrapar(AnalizarDenominacionConContexto(resp), BasicoDen)
         IN  [valor |-> [claves |-> { "denominaciones_totales",
                                      "cantidad_variaciones", "analisis_ia",
                                      "estadisticas",
                                      "contexto_mercado_resumido" },
                         analisis_ia |-> r.valor],
              excepcion |-> r.excepcion]

\* keys of the JSON object asked of the model for the trends
ClavesRespuestaTen ==
    { "emergentes", "decadentes", "nacionales", "globales", "innovacion",
      "recomendaciones" }

RespuestaTen == [claves |-> ClavesRespuestaTen, texto |-> "respuesta de la IA"]

LimitadoTen ==
    [claves |-> ClavesRespuestaTen, texto |-> "Análisis con limitaciones de IA"]

\* {"error": str(e)}
ErrorTen == [claves |-> {"error"}, texto |-> "ausente"]

\* AgenteTendencias._analisis_basico()
BasicoTen == [claves |-> ClavesRespuestaTen, texto |-> "Análisis básico"]

\* LLMHandler.analizar_tendencias
AnalizarTendenciasLLM(resp) ==
    Atrapar(Parsear(Call(resp), RespuestaTen, LimitadoTen), ErrorTen)

\* AgenteTendencias.analizar()
AnalizarTendencias(cliente, resp) ==
    IF cliente = "None"
    THEN [valor |-> [claves |-> BasicoTen.claves, analisis_ia |-> Ausente],
          excepcion |-> "ninguna"]
    ELSE LET r == Atrapar(AnalizarTendenciasLLM(resp), BasicoTen)
         IN  [valor |-> [claves |-> { "palabras_emergentes",
                                      "palabras_decadentes",
                                      "tendencias_nacionales",
                                      "tendencias_globales", "analisis_ia",
                                      "estadisticas" },
                         analisis_ia |-> r.valor],
              excepcion |-> r.excepcion]

\* AgenteInstitucionesGeografia._analisis_basico_ia()
BasicoIA ==
    [claves |-> {"analisis", "insights_clave"},
     texto |-> "Análisis basado en datos estadísticos"]

\* the institutions agent asks the model when it has a client and data
LlamaInstituciones(cliente, datos) == cliente # "None" /\ datos # "vacio"

\* AgenteInstitucionesGeografia._generar_analisis_ia()
GenerarAnalisisIA(cliente, datos, resp) ==
    IF ~LlamaInstituciones(cliente, datos)
    THEN [valor |-> BasicoIA, excepcion |-> "ninguna"]
    ELSE LET r == Call(resp)
         IN  Atrapar([valor |-> [claves |-> {"analisis", "insights_clave"},
                                 texto |-> "respuesta de la IA"],
                      excepcion |-> r.excepcion],
                     BasicoIA)

\* AgenteInstitucionesGeografia.analizar(): the empty analysis without
\* enriched data; 'porcentaje' of the accredited institutions is computed
\* only from a non-empty list of institutions
AnalizarInstituciones(cliente, datos, resp) ==
    LET claves == { "segmentacion_institucional", "hub_geograficos",
                    "oportunidades_por_ubicacion", "competencia_regional",
                    "institucion_referente", "gaps_geograficos",
                    "analisis_ia", "recomendaciones_institucion" }
    IN  IF datos = "vacio"
        THEN [valor |-> [claves |-> claves,
                         analisis_ia |-> [claves |-> {"analisis", "insights_clave"},
                                          texto |-> "Datos insuficientes"],
                         con_porcentaje |-> FALSE],
              excepcion |-> "ninguna"]
        ELSE LET r == GenerarAnalisisIA(cliente, datos, resp)
             IN  [valor |-> [claves |-> claves,
                             analisis_ia |-> r.valor,
                             con_porcentaje |-> (datos = "completo")],
                  excepcion |-> r.excepcion]

\* LLMHandler.generar_resumen
GenerarResumen(resp) ==
    Atrapar(Call(resp), "El programa es un programa académico")

\* CoordinadorAgentes._sintetizar: the summary, then _extraer_hallazgos,
\* which reads ['acreditadas']['porcentaje']
Sintetizar(cliente, resp, instituciones) ==
    LET r == IF cliente = "None"
             THEN [valor |-> "Análisis del programa", excepcion |-> "ninguna"]
             ELSE Atrapar(GenerarResumen(resp), "Resumen no disponible")
    IN  IF r.excepcion # "ninguna" THEN [valor |-> sintesis, excepcion |-> r.excepcion]
        ELSE IF ~instituciones.con_porcentaje
        THEN [valor |-> sintesis, excepcion |-> "KeyError"]
        ELSE [valor |-> [claves |-> { "programa", "denominacion_oficial",
                                      "resumen_ejecutivo",
                                      "hallazgos_principales",
                                      "hallazgos_institucionales",
                                      "recomendaciones",
                                      "recomendaciones_institucionales",
                                      "hub_geograficos_principales",
                                      "institucion_referente",
                                      "oportunidades_expansion",
                                      "proximos_pasos" },
                         resumen_ejecutivo |-> r.valor],
              excepcion |-> "ninguna"]

\* the requests a call site can see: none without a client
RespuestasDe(llama) == IF llama THEN Respuestas ELSE {"sin_llamar"}

\* the state in which the agents are run: a search has returned 'datos'
InitAgentes ==
    /\ copia \in {"main", "app"}
    /\ programa_buscar = sDoctoradoCienciasSociales
    /\ programas_list = TablaSociales
    /\ catalogo_cargado = programas_list
    /\ pc = "fin"
    /\ LocalesIniciales
    /\ resultado = << Texto(sDoctoradoCienciasSociales),
                      Texto(sDoctoradoEnCienciasSociales) >>
    /\ excepcion = "ninguna"
    /\ retorno = "pendiente"
    /\ previos = <<>>
    /\ otra = MarcoInactivo
    /\ api_key \in BOOLEAN
    /\ datos_enriquecidos \in {"vacio", "sin_instituciones", "completo"}
    /\ pcc = "init"
    /\ llm = [denominacion |-> "None", tendencias |-> "None",
              instituciones |-> "None", coordinador |-> "None"]
    /\ respuestas = [denominacion |-> "sin_llamar", tendencias |-> "sin_llamar",
                     instituciones |-> "sin_llamar", resumen |-> "sin_llamar"]
    /\ denominacion = [claves |-> {}, analisis_ia |-> Ausente]
    /\ tendencias = [claves |-> {}, analisis_ia |-> Ausente]
    /\ instituciones_geo = [claves |-> {}, analisis_ia |-> Ausente,
                            con_porcentaje |-> FALSE]
    /\ sintesis = [claves |-> {}, resumen_ejecutivo |-> "ausente"]
    /\ excepcion_coord = "ninguna"
    /\ EntornoInactivo

matcher == <<entrada, pc, locales, salida, previos, otra, entorno>>

\* CoordinadorAgentes.__init__: the three agents, then the coordinator's
\* own client
ConstruirCoordinador ==
    /\ pcc = "init"
    /\ LET d == ConstruirLLM(api_key)
           t == ConstruirLLM(api_key)
           i == ConstruirLLM(api_key)
           c == ConstruirLLM(api_key)
           lanzadas == { r.excepcion : r \in {d, t, i, c} } \ {"ninguna"}
       IN  IF lanzadas # {}
           THEN /\ excepcion_coord' = CHOOSE e \in lanzadas : TRUE
                /\ pcc' = "fin"
                /\ UNCHANGED llm
           ELSE /\ llm' = [denominacion |-> d.valor, tendencias |-> t.valor,
                           instituciones |-> i.valor, coordinador |-> c.valor]
                /\ pcc' = "denominacion"
                /\ UNCHANGED excepcion_coord
    /\ UNCHANGED <<matcher, api_key, datos_enriquecidos, respuestas,
                   denominacion, tendencias, instituciones_geo, sintesis>>

\* denominacion = self.agente_denominacion.analizar()
EjecutarDenominacion ==
    /\ pcc = "denominacion"
    /\ \E resp \in RespuestasDe(llm.denominacion # "None") :
          LET r == AnalizarDenominacion(llm.denominacion, resp)
          IN  /\ respuestas' = [respuestas EXCEPT !.denominacion = resp]
              /\ IF r.excepcion # "ninguna"
                 THEN /\ excepcion_coord' = r.excepcion
                      /\ pcc' = "fin"
                      /\ UNCHANGED denominacion
                 ELSE /\ denominacion' = r.valor
                      /\ pcc' = "tendencias"
                      /\ UNCHANGED excepcion_coord
    /\ UNCHANGED <<matcher, api_key, datos_enriquecidos, llm, tendencias,
                   instituciones_geo, sintesis>>

\* tendencias = self.agente_tendencias.analizar()
EjecutarTendencias ==
    /\ pcc = "tendencias"
    /\ \E resp \in RespuestasDe(llm.tendencias # "None") :
          LET r == AnalizarTendencias(llm.tendencias, resp)
          IN  /\ respuestas' = [respuestas EXCEPT !.tendencias = resp]
              /\ IF r.excepcion # "ninguna"
                 THEN /\ excepcion_coord' = r.excepcion
                      /\ pcc' = "fin"
                      /\ UNCHANGED tendencias
                 ELSE /\ tendencias' = r.valor
                      /\ pcc' = "instituciones"
                      /\ UNCHANGED excepcion_coord
    /\ UNCHANGED <<matcher, api_key, datos_enriquecidos, llm, denominacion,
                   instituciones_geo, sintesis>>

\* instituciones_geo = self.agente_instituciones.analizar()
EjecutarInstituciones ==
    /\ pcc = "instituciones"
    /\ \E resp \in RespuestasDe(LlamaInstituciones(llm.instituciones,
                                                  datos_enriquecidos)) :
          LET r == AnalizarInstituciones(llm.instituciones,
                                         datos_enriquecidos, resp)
          IN  /\ respuestas' = [respuestas EXCEPT !.instituciones = resp]
              /\ IF r.excepcion # "ninguna"
                 THEN /\ excepcion_coord' = r.excepcion
                      /\ pcc' = "fin"
                      /\ UNCHANGED instituciones_geo
                 ELSE /\ instituciones_geo' = r.valor
                      /\ pcc' = "sintesis"
                      /\ UNCHANGED excepcion_coord
    /\ UNCHANGED <<matcher, api_key, datos_enriquecidos, llm, denominacion,
                   tendencias, sintesis>>

\* sintesis = self._sintetizar(...), self.resultados and the return
EjecutarSintesis ==
    /\ pcc = "sintesis"
    /\ \E resp \in RespuestasDe(llm.coordinador # "None") :
          LET r == Sintetizar(llm.coordinador, resp, instituciones_geo)
          IN  /\ respuestas' = [respuestas EXCEPT !.resumen = resp]
              /\ excepcion_coord' = r.excepcion
              /\ sintesis' = r.valor
    /\ pcc' = "fin"
    /\ UNCHANGED <<matcher, api_key, datos_enriquecidos, llm, denominacion,
                   tendencias, instituciones_geo>>

NextAgentes ==
    \/ ConstruirCoordinador
    \/ EjecutarDenominacion
    \/ EjecutarTendencias
    \/ EjecutarInstituciones
    \/ EjecutarSintesis

SpecAgentes == InitAgentes /\ [][NextAgentes]_vars

\* ------------------------------------------------------------------------
\* LectorSNIES: loading the tables, procesar_todos and generar_graficas
\* ------------------------------------------------------------------------

\* calls made on one lector
MaxLlamadas == 3

\* programs a lector is constructed with
MaxProgramas == 2

\* the tables whose download has completed when the first k requests of
\* the loop over URLS succeed and the next one, if any, raises
Descargadas(k) == { Tablas[i] : i \in 1..k }

\* the try block of cargar_datos: self.datos[nombre] = pd.read_parquet(url)
\* for each table in turn; the exception of a request is logged and raised
\* again, and the tables stored before it stay in self.datos
Descargar(l, k) ==
    [l EXCEPT !.datos = @ \cup Descargadas(k),
              !.descargas = [t \in DOMAIN l.descargas |->
                                IF t \in Descargadas(k)
                                THEN l.descargas[t] + 1 ELSE l.descargas[t]],
              !.descargas_con_cache = @ + (IF l.datos # {} THEN k ELSE 0),
              !.excepcion = IF k < Len(Tablas) THEN "URLError" ELSE "ninguna",
              !.hubo_fallo = @ \/ (k < Len(Tablas))]

\* cargar_datos without the test of the cache: every call downloads
CargarDatos_sinCache(l, k) == Descargar(l, k)

\* LectorSNIES.cargar_datos(): 'if self.datos: return', else the downloads
CargarDatos(l, k) ==
    IF l.datos # {} THEN [l EXCEPT !.excepcion = "ninguna"]
    ELSE Descargar(l, k)

\* self.resultados[programa] = valor
Asignar(resultados, programa, valor) ==
    { r \in resultados : r.nombre # programa }
       \cup { [nombre |-> programa, equivalentes |-> valor] }

\* the keys of self.resultados
Claves(resultados) == { r.nombre : r \in resultados }

\* self.buscar_programa(programa) on the tables the lector holds: it reads
\* self.datos['programas'], ['maestro'] and ['oferta']
BuscarEnLector(l, programa, columna) ==
    IF ~({"programas", "maestro", "oferta"} \subseteq l.datos)
    THEN [equivalentes |-> <<>>, excepcion |-> "KeyError"]
    ELSE BuscarPrograma(programa, columna)

\* the body of the loop of procesar_todos without its try/except: the
\* exception of a search leaves the loop
IntentarBuscar_sinTry(l, programa, columna) ==
    LET r == BuscarEnLector(l, programa, columna)
    IN  IF r.excepcion # "ninguna" THEN [l EXCEPT !.excepcion = r.excepcion]
        ELSE [l EXCEPT !.resultados = Asignar(@, programa, r.equivalentes)]

\* try: self.resultados[programa] = self.buscar_programa(programa)
\* except Exception: log
IntentarBuscar(l, programa, columna) ==
    LET r == BuscarEnLector(l, programa, columna)
    IN  IF r.excepcion # "ninguna" THEN l
        ELSE [l EXCEPT !.resultados = Asignar(@, programa, r.equivalentes)]

\* for programa in self.programas
RECURSIVE Procesar(_, _, _)
Procesar(l, programas, columna) ==
    IF programas = <<>> \/ l.excepcion # "ninguna" THEN l
    ELSE Procesar(IntentarBuscar(l, Head(programas), columna),
                  Tail(programas), columna)

\* LectorSNIES.procesar_todos(): cargar_datos() is called outside the try
ProcesarTodos(l, k, columna) ==
    LET cargado == CargarDatos(l, k)
    IN  IF cargado.excepcion # "ninguna" THEN cargado
        ELSE Procesar(cargado, cargado.programas, columna)

\* LectorSNIES.generar_graficas(programa): the early return for a program
\* that is not a key of self.resultados; the drawing is inside try/except
GenerarGraficas(l, programa) ==
    IF programa \notin Claves(l.resultados)
    THEN [l EXCEPT !.retorno_temprano = TRUE, !.excepcion = "ninguna"]
    ELSE [l EXCEPT !.retorno_temprano = FALSE, !.excepcion = "ninguna",
                   !.graficas = @ \cup {programa}]

\* the names a lector is asked for
ProgramasLector == { sDoctoradoCienciasSociales, sDATOS, sVacia, sEspacios }

\* the lists of at most MaxProgramas names
ListasDeProgramas ==
    UNION { [1..k -> ProgramasLector] : k \in 0..MaxProgramas }

\* a lector has been constructed; the PROGRAMAS table on the server holds
\* the names of catalogo_cargado
InitLector ==
    /\ copia = "main"
    /\ programa_buscar = <<>>
    /\ programas_list \in { TablaSociales, TablaRepetida, <<>> }
    /\ catalogo_cargado = programas_list
    /\ pc = "inactiva"
    /\ LocalesIniciales
    /\ resultado = <<>>
    /\ excepcion = "ninguna"
    /\ retorno = "pendiente"
    /\ previos = <<>>
    /\ otra = MarcoInactivo
    /\ CoordinacionInactiva
    /\ session_state = SesionNueva
    /\ excepcion_app = "ninguna"
    /\ \E programas \in ListasDeProgramas : lector = LectorNuevo(programas)
    /\ cli = CliInactivo

\* the matcher's own state
matcher_sin_entorno == <<entrada, pc, locales, salida, previos, otra>>

\* what the calls on the lector leave alone
fueraDelLector == <<matcher_sin_entorno, coordinacion, session_state,
                    excepcion_app, cli>>

\* a call of lector.cargar_datos()
LlamarCargarDatos ==
    /\ lector.llamadas < MaxLlamadas
    /\ \E k \in 0..Len(Tablas) :
          lector' = [CargarDatos(lector, k) EXCEPT
                        !.llamadas = @ + 1, !.ultima = "cargar_datos"]
    /\ UNCHANGED fueraDelLector

\* a call of lector.procesar_todos()
LlamarProcesarTodos ==
    /\ lector.llamadas < MaxLlamadas
    /\ \E k \in 0..Len(Tablas) :
          lector' = [ProcesarTodos(lector, k, catalogo_cargado) EXCEPT
                        !.llamadas = @ + 1, !.ultima = "procesar_todos"]
    /\ UNCHANGED fueraDelLector

\* a call of lector.generar_graficas(programa), as generar_todas_graficas
\* makes for each program of the lector
LlamarGenerarGraficas ==
    /\ lector.llamadas < MaxLlamadas
    /\ \E i \in 1..Len(lector.programas) :
          lector' = [GenerarGraficas(lector, lector.programas[i]) EXCEPT
                        !.llamadas = @ + 1, !.ultima = "generar_graficas"]
    /\ UNCHANGED fueraDelLector

NextLector ==
    \/ LlamarCargarDatos
    \/ LlamarProcesarTodos
    \/ LlamarGenerarGraficas

SpecLector == InitLector /\ [][NextLector]_vars

\* ------------------------------------------------------------------------
\* main() of the CLI pipeline, from its PASO 1 on
\* ------------------------------------------------------------------------

\* main() enters its try block: lector = LectorSNIES([args.programa]) on a
\* server whose PROGRAMAS table holds the names of catalogo_cargado
InitCli ==
    /\ copia = "main"
    /\ programa_buscar \in Consultas
    /\ programas_list \in Catalogos
    /\ catalogo_cargado = programas_list
    /\ pc = "inactiva"
    /\ LocalesIniciales
    /\ resultado = <<>>
    /\ excepcion = "ninguna"
    /\ retorno = "pendiente"
    /\ previos = <<>>
    /\ otra = MarcoInactivo
    /\ CoordinacionInactiva
    /\ session_state = SesionNueva
    /\ excepcion_app = "ninguna"
    /\ lector = LectorNuevo(<<programa_buscar>>)
    /\ \E sin_agentes \in BOOLEAN :
          cli = [CliInactivo EXCEPT !.pc = "paso1", !.sin_agentes = sin_agentes]

\* except Exception as e: ... return 1
MainFalla(e) == [cli EXCEPT !.pc = "fin", !.excepcion = e, !.retorno = 1]

\* lector.cargar_datos(), then the call of _buscar_programa_mejorado
MainCargar ==
    /\ cli.pc = "paso1"
    /\ \E k \in 0..Len(Tablas) :
          LET cargado == CargarDatos(lector, k)
          IN  /\ lector' = [cargado EXCEPT !.llamadas = @ + 1,
                                           !.ultima = "cargar_datos"]
              /\ IF cargado.excepcion # "ninguna"
                 THEN /\ cli' = MainFalla(cargado.excepcion)
                      /\ UNCHANGED pc
                 ELSE /\ cli' = [cli EXCEPT !.pc = "buscar"]
                      /\ pc' = "paso0"
    /\ UNCHANGED <<entrada, locales, salida, previos, otra, coordinacion,
                   session_state, excepcion_app>>

\* 'if args.generar_graficas:' (the flag is store_true with default True, so
\* it is always set): lector.generar_graficas(args.programa, OUTPUT_DIR).
\* The exception of the search skips the rest of main().
MainGraficas ==
    /\ cli.pc = "buscar"
    /\ pc = "fin"
    /\ IF excepcion # "ninguna"
       THEN /\ cli' = MainFalla(excepcion)
            /\ UNCHANGED lector
       ELSE /\ lector' = [GenerarGraficas(lector, programa_buscar) EXCEPT
                             !.llamadas = @ + 1, !.ultima = "generar_graficas"]
            /\ cli' = [cli EXCEPT !.pc = "paso2"]
    /\ UNCHANGED <<matcher_sin_entorno, coordinacion, session_state,
                   excepcion_app>>

\* PASO 2: CoordinadorAgentes(datos).ejecutar() and guardar_resultados,
\* unless --sin-agentes; the coordinator returns or raises
MainAgentes ==
    /\ cli.pc = "paso2"
    /\ \E agentes \in IF cli.sin_agentes THEN {"saltados"}
                     ELSE {"retorna", "lanza"} :
          cli' = IF agentes = "lanza" THEN MainFalla("KeyError")
                 ELSE [cli EXCEPT !.pc = "paso3"]
    /\ UNCHANGED <<matcher_sin_entorno, coordinacion, session_state,
                   excepcion_app, lector>>

\* PASO 3: GeneradorPowerPoint(...).crear_presentacion(output_path), return 0
MainPresentacion ==
    /\ cli.pc = "paso3"
    /\ \E creada \in BOOLEAN :
          cli' = IF creada
                 THEN [cli EXCEPT !.pc = "fin", !.presentacion = TRUE,
                                  !.retorno = 0]
                 ELSE MainFalla("IOError")
    /\ UNCHANGED <<matcher_sin_entorno, coordinacion, session_state,
                   excepcion_app, lector>>

NextCli ==
    \/ MainCargar
    \/ Paso0
    \/ Delegar
    \/ Paso1
    \/ Paso2
    \/ Ordenar
    \/ MainGraficas
    \/ MainAgentes
    \/ MainPresentacion

SpecCli == InitCli /\ [][NextCli]_vars

\* ------------------------------------------------------------------------
\* Vocabulary of the properties
\* ------------------------------------------------------------------------

\* the invocation has ended, by a return or by an exception
Terminado == pc = "fin"

\* the invocation has returned
Retornado == pc = "fin" /\ excepcion = "ninguna"

\* Q: the significant words of the query
Q == PalabrasSignificativas(programa_buscar)

\* C: the significant words of a catalog entry
C(c) == PalabrasSignificativas(Str(c))

\* the first two (or fewer) words of the filtered token list of the query
PrimerasDos ==
    LET ord == PalabrasOrdenadas(programa_buscar)
    IN  { ord[k] : k \in (1..Len(ord)) \cap (1..2) }

\* |Q \cap C| / |Q| >= threshold, with threshold (n-1)/n for n > 1 and 1 for
\* n = 1, on integers: |Q \cap C| * n >= (n - 1) * n, resp. |Q \cap C| >= n
CoberturaBasta(palabrasQ, palabrasC) ==
    LET nq == Cardinality(palabrasQ)
        comunes == Cardinality(palabrasQ \cap palabrasC)
    IN  IF nq > 1 THEN comunes * nq >= (nq - 1) * nq ELSE comunes >= nq

\* every catalog entry is a str
CatalogoDeTexto ==
    \A i \in 1..Len(programas_list) : programas_list[i].tipo = "str"

\* ------------------------------------------------------------------------
\* Properties
\* ------------------------------------------------------------------------

\* C1: every entry of a returned result is an element of the catalog the
\* matcher was given, unchanged.
C1_ResultadoEnCatalogo ==
    Retornado =>
        \A i \in 1..Len(resultado) : resultado[i] \in ConjuntoDe(programas_list)

\* a search has returned some entries of a catalog and left others out
C1_Testigo ==
    /\ Retornado
    /\ resultado # <<>>
    /\ \E i \in 1..Len(programas_list) :
          programas_list[i] \notin ConjuntoDe(resultado)

\* C2: for a query with a significant word, a catalog entry is in the
\* returned result exactly when its coverage of Q reaches the threshold and
\* it contains the first two words of the query.
C2_CalificaSii ==
    (Retornado /\ Q # {}) =>
        \A c \in ConjuntoDe(programas_list) :
            (c \in ConjuntoDe(resultado))
                <=> (CoberturaBasta(Q, C(c)) /\ PrimerasDos \subseteq C(c))

\* a returned result holds an entry that lacks a word of the query, and the
\* catalog holds an entry that was left out
C2_Testigo ==
    /\ Retornado
    /\ Q # {}
    /\ \E i \in 1..Len(resultado) : ~(Q \subseteq C(resultado[i]))
    /\ \E i \in 1..Len(programas_list) :
          programas_list[i] \notin ConjuntoDe(resultado)

\* C3: no returned entry lacks one of the first two significant words of
\* the query; "Doctorado Ciencias Sociales" never returns
\* "Maestría en Ciencias Sociales".
C3_RequeridasPresentes ==
    Retornado =>
        /\ \A i \in 1..Len(resultado) : PrimerasDos \subseteq C(resultado[i])
        /\ programa_buscar = sDoctoradoCienciasSociales
              => Texto(sMaestriaEnCienciasSociales) \notin ConjuntoDe(resultado)

\* "Doctorado Ciencias Sociales" was searched in a catalog that holds
\* "Maestría en Ciencias Sociales", and something was returned
C3_Testigo ==
    /\ Retornado
    /\ programa_buscar = sDoctoradoCienciasSociales
    /\ Texto(sMaestriaEnCienciasSociales) \in ConjuntoDe(programas_list)
    /\ resultado # <<>>

\* C4: a query with a significant word that is itself in the catalog is in
\* the returned result; and on a catalog of text the search does return.
C4_AutoCoincidencia ==
    (Terminado /\ Q # {} /\ Texto(programa_buscar) \in ConjuntoDe(programas_list))
        => /\ Retornado => Texto(programa_buscar) \in ConjuntoDe(resultado)
           /\ CatalogoDeTexto => Retornado

\* a query was searched in a catalog that holds it next to other entries,
\* which were left out
C4_Testigo ==
    /\ Retornado
    /\ Q # {}
    /\ Texto(programa_buscar) \in ConjuntoDe(programas_list)
    /\ \E i \in 1..Len(programas_list) :
          programas_list[i] \notin ConjuntoDe(resultado)

\* the lower-cased raw tokens of the query, stop-words included
TokensCrudos ==
    LET partes == Split(programa_buscar)
    IN  { Lower(partes[i]) : i \in 1..Len(partes) }

\* C5 as stated: for a query without significant words, every returned entry
\* satisfies the coverage threshold computed against the raw tokens of the
\* query.
C5_CoberturaDeTokensCrudos ==
    (Retornado /\ Q = {}) =>
        \A i \in 1..Len(resultado) :
            CoberturaBasta(TokensCrudos, C(resultado[i]))

\* C5, amended: for a query without significant words Q stays empty, the
\* coverage counts as 1.0 and no word is required, so every catalog entry
\* qualifies: when the loop has ended coincidencias holds every catalog
\* entry, and a returned result is the set of the catalog entries.
C5_DegeneradaTodoCalifica ==
    /\ (pc \in {"ordenar", "fin"} /\ Q = {})
          => ConjuntoDe(coincidencias) = ConjuntoDe(programas_list)
    /\ (Retornado /\ Q = {})
          => ConjuntoDe(resultado) = ConjuntoDe(programas_list)

\* a query made of stop-words has returned two or more entries
C5_Testigo ==
    /\ Retornado
    /\ Q = {}
    /\ programa_buscar # <<>>
    /\ Len(resultado) >= 2

\* C6: the matcher never raises, whatever the query and the catalog, mixed
\* catalogs of text, missing values and numbers included.
C6_NuncaLanza == excepcion = "ninguna"

\* C7: the search of an empty catalog ends without exception and with no
\* equivalent; main.py gets there through lector.buscar_programa, app.py
\* returns None.
C7_CatalogoVacio ==
    (Terminado /\ programas_list = <<>>) =>
        /\ excepcion = "ninguna"
        /\ resultado = <<>>
        /\ copia = "main" => retorno = "dict_buscar_programa"
        /\ copia = "app" => retorno = "None"

\* main.py has searched the empty query in an empty catalog
C7_Testigo ==
    /\ Terminado
    /\ programas_list = <<>>
    /\ copia = "main"
    /\ programa_buscar = sVacia

\* C8: no entry occurs twice in a returned result.
C8_SinDuplicados ==
    Retornado =>
        \A i, j \in 1..Len(resultado) : i # j => resultado[i] # resultado[j]

\* a catalog that holds an entry twice was searched and the entry returned
C8_Testigo ==
    /\ Retornado
    /\ \E i, j \in 1..Len(programas_list) :
          /\ i < j
          /\ programas_list[i] = programas_list[j]
          /\ programas_list[i] \in ConjuntoDe(resultado)

\* a precedes b in the lexicographic order of the code points
PrecedeLex(a, b) ==
    \E k \in 1..Len(b) :
        /\ k <= Len(a) + 1
        /\ \A m \in 1..(k - 1) : a[m] = b[m]
        /\ IF k > Len(a) THEN TRUE ELSE a[k] < b[k]

\* C9: a returned result is in ascending lexicographic order of the
\* original texts, and it is the enumeration of a set that depends on the
\* set of catalog entries only, not on their order.
C9_OrdenAscendente ==
    Retornado =>
        /\ \A i \in 1..(Len(resultado) - 1) :
              /\ resultado[i].tipo = "str"
              /\ resultado[i + 1].tipo = "str"
              /\ PrecedeLex(resultado[i].v, resultado[i + 1].v)
        /\ ConjuntoDe(resultado) =
              { c \in ConjuntoDe(programas_list) :
                   Q = {} \/ (CoberturaBasta(Q, C(c)) /\ PrimerasDos \subseteq C(c)) }

\* two entries were returned in the order opposite to their catalog order
C9_Testigo ==
    /\ Retornado
    /\ Len(resultado) >= 2
    /\ \E i, j \in 1..Len(programas_list) :
          /\ i < j
          /\ programas_list[i] = resultado[2]
          /\ programas_list[j] = resultado[1]

\* C10: an invocation ends as every earlier invocation on the same query
\* and catalog ended: same list of equivalents in the same order, same
\* exception.
C10_Determinismo ==
    Terminado =>
        \A k \in 1..Len(previos) :
            /\ previos[k].resultado = resultado
            /\ previos[k].excepcion = excepcion

\* a second invocation has returned two or more entries
C10_Testigo ==
    /\ Retornado
    /\ Len(previos) >= 1
    /\ Len(resultado) >= 2

\* C15: for a query with a significant word, every returned entry lacks at
\* most one of the significant words of the query; for a query with exactly
\* one significant word the result is exactly the set of the catalog entries
\* whose token set contains that word.
C15_FaltaALoSumoUna ==
    (Retornado /\ Q # {}) =>
        /\ \A i \in 1..Len(resultado) :
              Cardinality(Q \ C(resultado[i])) <= 1
        /\ Cardinality(Q) = 1 =>
              ConjuntoDe(resultado) =
                  { c \in ConjuntoDe(programas_list) : Q \subseteq C(c) }

\* a one-word query has returned an entry and left another out
C15_Testigo ==
    /\ Retornado
    /\ Cardinality(Q) = 1
    /\ resultado # <<>>
    /\ \E i \in 1..Len(programas_list) :
          programas_list[i] \notin ConjuntoDe(resultado)

\* two code points that are the same letter in either case
MismaLetra(c, d) ==
    \/ c = d
    \/ \E u \in (65..90) \cup ((192..222) \ {215}) : {c, d} = {u, u + 32}

\* two texts that differ by the case of their letters at most
SoloCambiaCaja(a, b) ==
    /\ Len(a) = Len(b)
    /\ \A i \in 1..Len(a) : MismaLetra(a[i], b[i])

\* C11: a search ends as every earlier search of the session whose query
\* differs from its query by letter case only (same equivalents, same
\* exception); and of two catalog entries that differ by letter case only,
\* either both are returned or neither.
C11_InsensibleACaja ==
    /\ Terminado =>
          \A k \in 1..Len(previos) :
              SoloCambiaCaja(previos[k].consulta, programa_buscar) =>
                  /\ previos[k].resultado = resultado
                  /\ previos[k].excepcion = excepcion
    /\ Retornado =>
          \A c, d \in ConjuntoDe(programas_list) :
              (c.tipo = "str" /\ d.tipo = "str" /\ SoloCambiaCaja(c.v, d.v))
                  => (c \in ConjuntoDe(resultado) <=> d \in ConjuntoDe(resultado))

\* a query was searched after its variant in another case, and the result
\* holds two entries that differ by case and leaves out other entries
C11_Testigo ==
    /\ Retornado
    /\ \E k \in 1..Len(previos) :
          /\ previos[k].consulta # programa_buscar
          /\ SoloCambiaCaja(previos[k].consulta, programa_buscar)
    /\ \E i, j \in 1..Len(resultado) :
          /\ i # j
          /\ SoloCambiaCaja(resultado[i].v, resultado[j].v)
    /\ \E i \in 1..Len(programas_list) :
          programas_list[i] \notin ConjuntoDe(resultado)

\* number of occurrences of the word w in the word list 'palabras'
Veces(w, palabras) == Cardinality({ i \in 1..Len(palabras) : palabras[i] = w })

\* two texts made of the same words, each the same number of times
MismasPalabras(a, b) ==
    LET pa == Split(a)
        pb == Split(b)
    IN  /\ Len(pa) = Len(pb)
        /\ \A i \in 1..Len(pa) : Veces(pa[i], pa) = Veces(pa[i], pb)

\* the first two (or fewer) words of the filtered token list of the text s
PrimerasDosDe(s) ==
    LET ord == PalabrasOrdenadas(s)
    IN  { ord[k] : k \in (1..Len(ord)) \cap (1..2) }

\* C12 as stated: a search returns what every earlier search of the session
\* returned whose query is made of the same words in another order.
C12_OrdenIndiferente ==
    Terminado =>
        \A k \in 1..Len(previos) :
            MismasPalabras(previos[k].consulta, programa_buscar) =>
                /\ previos[k].resultado = resultado
                /\ previos[k].excepcion = excepcion

\* C12 amended: a search returns what every earlier search of the session
\* returned whose query is made of the same words in another order and has
\* the same first two significant words, in either order.
C12_OrdenIndiferenteMismasPrimeras ==
    Terminado =>
        \A k \in 1..Len(previos) :
            ( /\ MismasPalabras(previos[k].consulta, programa_buscar)
              /\ PrimerasDosDe(previos[k].consulta) = PrimerasDosDe(programa_buscar) )
            => /\ previos[k].resultado = resultado
               /\ previos[k].excepcion = excepcion

\* a query was searched after the same words in another order with the same
\* first two words, and returned some entries of the catalog, not all
C12_Testigo ==
    /\ Retornado
    /\ resultado # <<>>
    /\ \E i \in 1..Len(programas_list) :
          programas_list[i] \notin ConjuntoDe(resultado)
    /\ \E k \in 1..Len(previos) :
          /\ previos[k].consulta # programa_buscar
          /\ MismasPalabras(previos[k].consulta, programa_buscar)
          /\ PrimerasDosDe(previos[k].consulta) = PrimerasDosDe(programa_buscar)

\* a >= b and a > b on the thresholds of two searches (fractions with
\* positive denominators)
UmbralNoMenor(a, b) == a.num * b.den >= b.num * a.den
UmbralMayor(a, b) == a.num * b.den > b.num * a.den

\* C14 as stated: of two searches, the one whose query has fewer
\* significant words has a threshold at least as high.
C14_MenosPalabrasMasEstricto ==
    Terminado =>
        \A k \in 1..Len(previos) :
            previos[k].n < n =>
                UmbralNoMenor(previos[k].umbral_jaccard, umbral_jaccard)

\* C14 amended: the threshold of a one-word query is at least the threshold
\* of any query; of two queries with two or more significant words, the one
\* with fewer words has the strictly lower threshold.
C14_UnaPalabraEsLaMasEstricta ==
    Terminado =>
        \A k \in 1..Len(previos) :
            /\ previos[k].n = 1 =>
                  UmbralNoMenor(previos[k].umbral_jaccard, umbral_jaccard)
            /\ (2 <= previos[k].n /\ previos[k].n < n) =>
                  UmbralMayor(umbral_jaccard, previos[k].umbral_jaccard)

\* a three-word query was searched after a one-word and a two-word query
C14_Testigo ==
    /\ Terminado
    /\ n = 3
    /\ \E j, k \in 1..Len(previos) : previos[j].n = 1 /\ previos[k].n = 2

\* the entry d holds every word of the entry c at least as often as c does:
\* d is c with its words reordered, or with further words or stop-words
Amplia(d, c) ==
    LET pc_ == Split(Str(c))
        pd_ == Split(Str(d))
    IN  \A i \in 1..Len(pc_) : Veces(pc_[i], pc_) <= Veces(pc_[i], pd_)

\* C13: when an entry is returned, every catalog entry made of its words in
\* another order, or of its words and further words or stop-words, is
\* returned too.
C13_LargoNoImporta ==
    Retornado =>
        \A c, d \in ConjuntoDe(programas_list) :
            (c \in ConjuntoDe(resultado) /\ Amplia(d, c))
                => d \in ConjuntoDe(resultado)

\* a result holds an entry, a reordering of it and an extension of it by a
\* further word, and leaves out other entries
C13_Testigo ==
    /\ Retornado
    /\ \E c, d, e \in ConjuntoDe(resultado) :
          /\ c # d
          /\ Amplia(d, c) /\ Amplia(c, d)
          /\ Amplia(e, c) /\ Len(Split(Str(e))) > Len(Split(Str(c)))
    /\ \E i \in 1..Len(programas_list) :
          programas_list[i] \notin ConjuntoDe(resultado)

\* C16: on the catalog "Doctorado en Ciencias Sociales", "Doctorado Ciencias
\* Sociales", "Maestría en Ciencias Sociales", "Doctorado en Física", the
\* query "Doctorado Ciencias Sociales" returns, and its result is exactly
\* the set of the first two entries.
C16_EjemploSociales ==
    ( /\ Terminado
      /\ programas_list = TablaSociales
      /\ programa_buscar = sDoctoradoCienciasSociales )
    => /\ excepcion = "ninguna"
       /\ ConjuntoDe(resultado) =
             { Texto(sDoctoradoEnCienciasSociales),
               Texto(sDoctoradoCienciasSociales) }

\* the search of the example has returned two entries
C16_Testigo ==
    /\ Retornado
    /\ copia = "main"
    /\ programas_list = TablaSociales
    /\ programa_buscar = sDoctoradoCienciasSociales
    /\ Len(resultado) = 2

\* C17: the catalog held by the lector is at every moment the catalog it was
\* loaded with, and a search ends as every earlier search of the session for
\* the same query ended (same equivalents, same exception).
C17_CatalogoIntacto ==
    /\ programas_list = catalogo_cargado
    /\ Terminado =>
          \A k \in 1..Len(previos) :
              previos[k].consulta = programa_buscar =>
                  /\ previos[k].resultado = resultado
                  /\ previos[k].excepcion = excepcion

\* a query was searched, then another query with another non-empty result,
\* then the first query again, which returned some entries and not all
C17_Testigo ==
    /\ Retornado
    /\ Len(previos) = 2
    /\ previos[1].consulta = programa_buscar
    /\ previos[2].consulta # programa_buscar
    /\ previos[2].resultado # <<>>
    /\ previos[2].resultado # resultado
    /\ resultado # <<>>
    /\ \E i \in 1..Len(programas_list) :
          programas_list[i] \notin ConjuntoDe(resultado)

\* the list 'res' is what a search for q alone on the catalog returns: the
\* qualifying entries of the catalog, each once, in ascending order
ResultadoSolo(q, catalogo, res) ==
    /\ \A i \in 1..(Len(res) - 1) :
          /\ res[i].tipo = "str"
          /\ res[i + 1].tipo = "str"
          /\ PrecedeLex(res[i].v, res[i + 1].v)
    /\ ConjuntoDe(res) =
          { c \in ConjuntoDe(catalogo) :
               \/ PalabrasSignificativas(q) = {}
               \/ /\ CoberturaBasta(PalabrasSignificativas(q), C(c))
                  /\ PrimerasDosDe(q) \subseteq C(c) }

\* C18: of two invocations that run concurrently on the same catalog, each
\* one that has ended has returned what it returns when it runs alone on
\* the catalog the lector was loaded with.
C18_SinInterferencia ==
    /\ pc = "fin" =>
          /\ excepcion = "ninguna"
          /\ ResultadoSolo(programa_buscar, catalogo_cargado, resultado)
    /\ otra.pc = "fin" =>
          /\ otra.excepcion = "ninguna"
          /\ ResultadoSolo(otra.programa_buscar, catalogo_cargado, otra.resultado)

\* two invocations with different queries have overlapped and both have
\* returned entries, not the same ones
C18_Testigo ==
    /\ pc = "fin"
    /\ otra.pc = "fin"
    /\ otra.solapada
    /\ otra.programa_buscar # programa_buscar
    /\ resultado # <<>>
    /\ otra.resultado # <<>>
    /\ otra.resultado # resultado

\* the exceptions of the LLM client: of its construction and of a request
ExcepcionesLLM == {"ValueError", "APIError"}

\* C19: no exception of the LLM client leaves CoordinadorAgentes.__init__
\* or ejecutar; on complete enriched data the run returns whatever the
\* client does.
C19_FalloLLMTolerado ==
    /\ excepcion_coord \notin ExcepcionesLLM
    /\ (pcc = "fin" /\ datos_enriquecidos = "completo") =>
          excepcion_coord = "ninguna"

\* every request to the model has raised and ejecutar has returned
C19_Testigo ==
    /\ pcc = "fin"
    /\ excepcion_coord = "ninguna"
    /\ respuestas = [denominacion |-> "lanza", tendencias |-> "lanza",
                     instituciones |-> "lanza", resumen |-> "lanza"]

\* C20: when the request of the denomination agent, or of the trends agent,
\* has raised, the 'analisis_ia' of the agent's result is its
\* _analisis_basico().
C20_RespaldoBasico ==
    /\ (pcc \in {"tendencias", "instituciones", "sintesis"}
          /\ respuestas.denominacion = "lanza")
       => denominacion.analisis_ia = BasicoDen
    /\ (pcc \in {"instituciones", "sintesis"}
          /\ respuestas.tendencias = "lanza")
       => tendencias.analisis_ia = BasicoTen

\* C23: ejecutar on a 'datos' whose datos_enriquecidos is empty, or holds an
\* empty list of institutions, ends without an exception and with the four
\* parts of its result.
C23_VacioAceptado ==
    (pcc = "fin" /\ datos_enriquecidos # "completo") =>
        /\ excepcion_coord = "ninguna"
        /\ sintesis.claves # {}

\* the key sets of the results of analizar() stated for the two agents
ClavesResultadoDen ==
    { "denominaciones_totales", "cantidad_variaciones", "analisis_ia",
      "estadisticas", "contexto_mercado_resumido" }

ClavesResultadoTen ==
    { "palabras_emergentes", "palabras_decadentes", "tendencias_nacionales",
      "tendencias_globales", "analisis_ia", "estadisticas" }

\* C24: the result of AgenteDenominacion.analizar(), and of
\* AgenteTendencias.analizar(), has the stated top-level keys with and
\* without an LLM client.
C24_MismasClaves ==
    /\ pcc \in {"tendencias", "instituciones", "sintesis"}
          => denominacion.claves = ClavesResultadoDen
    /\ pcc \in {"instituciones", "sintesis"}
          => tendencias.claves = ClavesResultadoTen

\* C25 as stated: for a query with exactly two distinct significant words,
\* a catalog entry is returned exactly when it contains both words.
C25_DosPalabrasAmbas ==
    (Retornado /\ Cardinality(Q) = 2) =>
        \A c \in ConjuntoDe(programas_list) :
            (c \in ConjuntoDe(resultado)) <=> (Q \subseteq C(c))

\* C25, amended: for a query with exactly two distinct significant words
\* whose first two filtered tokens are different words, a catalog entry is
\* returned exactly when it contains both words.  (When the first word is
\* repeated, as in "Datos datos Ciencia", it is the only required word and
\* an entry with it alone reaches the threshold 1/2.)
C25_DosPalabrasDistintasAmbas ==
    (Retornado /\ Cardinality(Q) = 2 /\ Cardinality(PrimerasDos) = 2) =>
        /\ programas_list # <<>> => umbral_jaccard = [num |-> 1, den |-> 2]
        /\ \A c \in ConjuntoDe(programas_list) :
              (c \in ConjuntoDe(resultado)) <=> (Q \subseteq C(c))

\* a query of two different words has left out an entry that holds exactly
\* one of them, and returned another
C25_Testigo ==
    /\ Retornado
    /\ Cardinality(Q) = 2
    /\ Cardinality(PrimerasDos) = 2
    /\ resultado # <<>>
    /\ \E i \in 1..Len(programas_list) :
          /\ Cardinality(Q \cap C(programas_list[i])) = 1
          /\ programas_list[i] \notin ConjuntoDe(resultado)

\* ------------------------------------------------------------------------
\* The three copies of the matching routine, each as a function of the
\* query and of the list of names: the set of outcomes of one run (one for
\* each order in which the set of matches can be listed)
\* ------------------------------------------------------------------------

\* for prg in <names>: ... coincidencias.append(prg)
RECURSIVE Bucle(_, _, _, _, _)
Bucle(nombres, lista, palabras, req, umbral) ==
    IF nombres = <<>> THEN lista
    ELSE Bucle(Tail(nombres),
               Filtrar(lista, palabras, req, umbral, Head(nombres)),
               palabras, req, umbral)

\* coincidencias = sorted(list(set(coincidencias)))
SalidasDe(coincid) ==
    { IF LanzaTypeError(lista)
      THEN [equivalentes |-> <<>>, excepcion |-> "TypeError"]
      ELSE [equivalentes |-> Sorted(lista), excepcion |-> "ninguna"] :
      lista \in ListaDeSet(coincid) }

\* main.py _buscar_programa_mejorado up to the sorted list: an empty list of
\* names goes to lector.buscar_programa
BuscarProgramaMejorado(q, nombres) ==
    IF Len(nombres) = 0 THEN { BuscarPrograma(q, nombres) }
    ELSE LET programa_palabras_ == PalabrasSignificativas(q)
             requerido_ == Requerido(PalabrasOrdenadas(q))
             umbral_ == Umbral(TamanoN(programa_palabras_))
         IN  SalidasDe(Bucle(nombres, <<>>, programa_palabras_, requerido_,
                             umbral_))

\* app.py buscar_programa_snies up to the sorted list
BuscarProgramaSnies(q, nombres) ==
    LET programa_palabras_ == PalabrasSignificativas(q)
        requerido_ == Requerido(PalabrasOrdenadas(q))
        umbral_ == Umbral(TamanoN(programa_palabras_))
    IN  SalidasDe(Bucle(nombres, <<>>, programa_palabras_, requerido_,
                        umbral_))

\* the test copy with the threshold alone: the required words are not asked
BuscarYExtraerPrograma_sinRequeridas(q, nombres) ==
    LET programa_palabras_ == PalabrasSignificativas(q)
        umbral_ == Umbral(TamanoN(programa_palabras_))
    IN  SalidasDe(Bucle(nombres, <<>>, programa_palabras_, {}, umbral_))

\* tests/test_filtrosSNIES.py buscar_y_extraer_programa up to the sorted
\* list, on the names it reads from the PROGRAMAS table
BuscarYExtraerPrograma(q, nombres) ==
    LET programa_palabras_ == PalabrasSignificativas(q)
        requerido_ == Requerido(PalabrasOrdenadas(q))
        umbral_ == Umbral(TamanoN(programa_palabras_))
    IN  SalidasDe(Bucle(nombres, <<>>, programa_palabras_, requerido_,
                        umbral_))

\* C26: on a non-empty catalog the three copies of the routine have the same
\* outcomes for the query, and the first invocation made on the query and
\* the catalog, once ended, has one of them.
C26_TresCopiasIguales ==
    (Terminado /\ previos = <<>> /\ Len(catalogo_cargado) > 0) =>
        LET prueba == BuscarYExtraerPrograma(programa_buscar, catalogo_cargado)
        IN  /\ BuscarProgramaMejorado(programa_buscar, catalogo_cargado) = prueba
            /\ BuscarProgramaSnies(programa_buscar, catalogo_cargado) = prueba
            /\ [equivalentes |-> resultado, excepcion |-> excepcion] \in prueba

\* a search has returned some names of a catalog and not others, where the
\* required words have excluded a name that reaches the threshold
C26_Testigo ==
    /\ Retornado
    /\ resultado # <<>>
    /\ \E i \in 1..Len(catalogo_cargado) :
          /\ catalogo_cargado[i] \notin ConjuntoDe(resultado)
          /\ CoberturaBasta(Q, C(catalogo_cargado[i]))

\* the run of the page script has ended, normally or by an exception
EnReposo == copia = "app" /\ pc = "reposo"

\* C27: once a run of the page has ended, if datos_cargados is true the
\* stored resultados_agentes and datos_json are those of the search for
\* programa_actual.
C27_ResultadosDelProgramaActual ==
    (EnReposo /\ session_state.datos_cargados) =>
        /\ session_state.resultados_agentes
              = DictDe(session_state.programa_actual.v)
        /\ session_state.datos_json = DictDe(session_state.programa_actual.v)

\* C28: a search of the page that has found no equivalent program ends
\* without an exception and with datos_cargados = False.
C28_SinEquivalentesSinExcepcion ==
    (EnReposo /\ excepcion = "ninguna" /\ resultado = <<>>) =>
        /\ excepcion_app = "ninguna"
        /\ ~session_state.datos_cargados

\* C21: no table has been downloaded more than once on one lector, and no
\* call of cargar_datos that found data held has downloaded anything.
C21_CargaUnaVez ==
    /\ \A i \in 1..Len(Tablas) : lector.descargas[Tablas[i]] <= 1
    /\ lector.descargas_con_cache = 0

\* the four tables were downloaded and cargar_datos has been called again
C21_Testigo ==
    /\ lector.llamadas >= 2
    /\ lector.ultima = "cargar_datos"
    /\ lector.excepcion = "ninguna"
    /\ \A i \in 1..Len(Tablas) : lector.descargas[Tablas[i]] = 1

\* C22: when cargar_datos has returned normally the lector holds the four
\* tables, also after an earlier call that failed part-way.
C22_CuatroTablas ==
    (lector.ultima = "cargar_datos" /\ lector.excepcion = "ninguna") =>
        lector.datos = {"maestro", "oferta", "programas", "ies"}

\* the programs of the lector whose search returns on the tables it holds
Encontrables ==
    { lector.programas[i] : i \in 1..Len(lector.programas) }
       \ { p \in ProgramasLector \cup {sDOCTORADOCIENCIASSOCIALES} :
              BuscarEnLector(lector, p, catalogo_cargado).excepcion # "ninguna" }

\* C29: the exception of a search never leaves procesar_todos; once the
\* tables are loaded procesar_todos returns, and resultados then holds
\* exactly the programs of the list whose search returns, each with the
\* equivalents of its search.
C29_FallosAislados ==
    lector.ultima = "procesar_todos" =>
        /\ lector.excepcion \in {"ninguna", "URLError"}
        /\ lector.datos = {"maestro", "oferta", "programas", "ies"}
              => lector.excepcion = "ninguna"
        /\ lector.excepcion = "ninguna" =>
              /\ Claves(lector.resultados) = Encontrables
              /\ \A r \in lector.resultados :
                    r.equivalentes
                       = BuscarPrograma(r.nombre, catalogo_cargado).equivalentes

\* procesar_todos has returned on a list whose first program divides by
\* zero and whose second program was processed and has equivalents
C29_Testigo ==
    /\ lector.ultima = "procesar_todos"
    /\ lector.excepcion = "ninguna"
    /\ Len(lector.programas) = 2
    /\ BuscarEnLector(lector, lector.programas[1], catalogo_cargado).excepcion
          = "ZeroDivisionError"
    /\ \E r \in lector.resultados :
          /\ r.nombre = lector.programas[2]
          /\ r.equivalentes # <<>>

\* C30: in main(), once lector.generar_graficas(programa) has been called
\* the program was a key of lector.resultados, the early return was not
\* taken and the graphs of the program were drawn; so they are when the
\* presentation has been created.
C30_GraficasAntesDePresentacion ==
    /\ (cli.pc # "inactivo" /\ lector.ultima = "generar_graficas") =>
          /\ programa_buscar \in Claves(lector.resultados)
          /\ ~lector.retorno_temprano
          /\ programa_buscar \in lector.graficas
    /\ cli.presentacion => programa_buscar \in lector.graficas

====
